---------------------------- MODULE Spec2Model ----------------------------
(* A model of the four state-machine execution strategies of the crate:    *)
(*   internal_enum  - closed enum, internally driven executor               *)
(*   dyn_trait      - Box<dyn State> executor                               *)
(*   compose_trait  - and_then chain of typed stages                        *)
(*   external_enum  - enum driven by events received over an mpsc channel   *)
(* and of the collaborators in lib.rs.                                      *)
EXTENDS Integers, Sequences, FiniteSets, TLC

(***************************************************************************)
(* Bounds of the model.                                                    *)
(***************************************************************************)
NumAddr == 2       \* distinct IpAddr values
MaxNodes == 2      \* longest address list drawn for an initial state
MaxEvents == 5     \* most events the producer sends before it is dropped

Addr == 1..NumAddr

RECURSIVE SeqsUpTo(_, _)
SeqsUpTo(S, n) ==
    IF n = 0 THEN {<<>>}
    ELSE LET shorter == SeqsUpTo(S, n - 1)
         IN  shorter \cup {Append(s, a) : s \in {t \in shorter : Len(t) = n - 1}, a \in S}

AddrLists == SeqsUpTo(Addr, MaxNodes)

(***************************************************************************)
(* lib.rs                                                                  *)
(***************************************************************************)
\* NodeConnection::connect: a connection wraps the address it was made from.
NodeConnection_connect(addr) == [_addr |-> addr]

\* get_service_nodes: the mock discovery returns an empty Vec.
get_service_nodes == <<>>

\* connect_to_nodes with a fault injected: each connection is put in front of the earlier ones
RECURSIVE connect_loop_rev(_, _, _)
connect_loop_rev(nodes, i, connections) ==
    IF i > Len(nodes) THEN connections
    ELSE connect_loop_rev(nodes, i + 1, <<NodeConnection_connect(nodes[i])>> \o connections)

connect_to_nodes_rev(nodes) == connect_loop_rev(nodes, 1, <<>>)

\* connect_to_nodes: push one connection per node, walking the slice in order
\* (Vec::with_capacity only reserves room: the Vec starts empty).
RECURSIVE connect_loop(_, _, _)
connect_loop(nodes, i, connections) ==
    IF i > Len(nodes) THEN connections
    ELSE connect_loop(nodes, i + 1, Append(connections, NodeConnection_connect(nodes[i])))

connect_to_nodes(nodes) == connect_loop(nodes, 1, <<>>)

\* The Vec<NodeConnection> values a caller can build: NodeConnection has a
\* private field, so every connection comes from NodeConnection::connect.
ConnsOf(addrs) == [i \in 1..Len(addrs) |-> [_addr |-> addrs[i]]]

(***************************************************************************)
(* Phase values.  One record shape serves the four modules; a field a      *)
(* struct does not have stays at its empty value.                          *)
(***************************************************************************)
Phases == {"DiscoverNodes", "ConnectNodes", "Consensus", "Leader", "Follower"}

St(tag, nodes, connections, is_leader) ==
    [tag |-> tag, nodes |-> nodes, connections |-> connections, is_leader |-> is_leader]

Terminate == St("Terminate", <<>>, <<>>, FALSE)
NoState == St("None", <<>>, <<>>, FALSE)

\* Result<T, Box<dyn Error>>, plus the panic of unreachable!().
Ok(v) == [kind |-> "Ok", val |-> v]
Err(tag) == [kind |-> "Err", val |-> St(tag, <<>>, <<>>, FALSE)]
Panic == [kind |-> "Panic", val |-> NoState]

(***************************************************************************)
(* internal_enum.rs                                                        *)
(***************************************************************************)
\* DiscoverNodes::execute .. Follower::execute of internal_enum.rs
ie_DiscoverNodes_execute(self) == get_service_nodes
ie_ConnectNodes_execute(self) == connect_to_nodes(self.nodes)
\* ie_Consensus_execute with a fault injected: the last connection is lost
ie_Consensus_execute_drop(self) ==
    <<TRUE, SubSeq(self.connections, 1, Len(self.connections) - 1)>>
ie_Consensus_execute(self) == <<TRUE, self.connections>>

\* ie_execute with a fault injected: ConnectNodes goes straight to Leader, skipping Consensus
ie_execute_skip(self) ==
    CASE self.tag = "DiscoverNodes" ->
            Ok(St("ConnectNodes", ie_DiscoverNodes_execute(self), <<>>, FALSE))
      [] self.tag = "ConnectNodes" ->
            Ok(St("Leader", <<>>, ie_ConnectNodes_execute(self), FALSE))
      [] self.tag = "Consensus" ->
            Ok(St("Leader", <<>>, ie_Consensus_execute(self)[2], FALSE))
      [] self.tag = "Leader" -> Ok(Terminate)
      [] self.tag = "Follower" -> Ok(Terminate)
      [] self.tag = "Terminate" -> Panic

\* ie_execute with a fault injected: Leader steps down to Follower before the machine ends
ie_execute_demote(self) ==
    CASE self.tag = "DiscoverNodes" ->
            Ok(St("ConnectNodes", ie_DiscoverNodes_execute(self), <<>>, FALSE))
      [] self.tag = "ConnectNodes" ->
            Ok(St("Consensus", <<>>, ie_ConnectNodes_execute(self), FALSE))
      [] self.tag = "Consensus" ->
            Ok(St("Leader", <<>>, ie_Consensus_execute(self)[2], FALSE))
      [] self.tag = "Leader" -> Ok(St("Follower", <<>>, self.connections, FALSE))
      [] self.tag = "Follower" -> Ok(Terminate)
      [] self.tag = "Terminate" -> Panic

\* ie_execute with a fault injected: execute on Terminate quietly returns Terminate
ie_execute_silent(self) ==
    CASE self.tag = "DiscoverNodes" ->
            Ok(St("ConnectNodes", ie_DiscoverNodes_execute(self), <<>>, FALSE))
      [] self.tag = "ConnectNodes" ->
            Ok(St("Consensus", <<>>, ie_ConnectNodes_execute(self), FALSE))
      [] self.tag = "Consensus" ->
            Ok(St("Leader", <<>>, ie_Consensus_execute(self)[2], FALSE))
      [] self.tag = "Leader" -> Ok(Terminate)
      [] self.tag = "Follower" -> Ok(Terminate)
      [] self.tag = "Terminate" -> Ok(Terminate)

\* ie_execute with a fault injected: an empty peer set ends the workflow at ConnectNodes
ie_execute_empty_special(self) ==
    CASE self.tag = "DiscoverNodes" ->
            Ok(St("ConnectNodes", ie_DiscoverNodes_execute(self), <<>>, FALSE))
      [] self.tag = "ConnectNodes" ->
            IF self.nodes = <<>> THEN Ok(Terminate)
            ELSE Ok(St("Consensus", <<>>, ie_ConnectNodes_execute(self), FALSE))
      [] self.tag = "Consensus" ->
            Ok(St("Leader", <<>>, ie_Consensus_execute(self)[2], FALSE))
      [] self.tag = "Leader" -> Ok(Terminate)
      [] self.tag = "Follower" -> Ok(Terminate)
      [] self.tag = "Terminate" -> Panic

\* impl InternallyDrivenTransition for FullStateMachine: execute
ie_execute(self) ==
    CASE self.tag = "DiscoverNodes" ->
            LET nodes == ie_DiscoverNodes_execute(self)
            IN  Ok(St("ConnectNodes", nodes, <<>>, FALSE))
      [] self.tag = "ConnectNodes" ->
            LET connections == ie_ConnectNodes_execute(self)
            IN  Ok(St("Consensus", <<>>, connections, FALSE))
      [] self.tag = "Consensus" ->
            LET r == ie_Consensus_execute(self)
            IN  IF r[1] THEN Ok(St("Leader", <<>>, r[2], FALSE))
                        ELSE Ok(St("Follower", <<>>, r[2], FALSE))
      [] self.tag = "Leader" -> Ok(Terminate)
      [] self.tag = "Follower" -> Ok(Terminate)
      [] self.tag = "Terminate" -> Panic

\* ie_is_terminal_state with a fault injected: the pattern names the wrong variant
ie_is_terminal_state_leader(self) == self.tag = "Leader"

\* impl InternallyDrivenTransition for FullStateMachine: is_terminal_state
ie_is_terminal_state(self) == self.tag = "Terminate"


\* trait InternallyDrivenTransition::execute as the executor sees it: a
\* Result.  The mock FullStateMachine never returns Err; `f` names the phase
\* whose execute fails in an implementor that can ("none" for the mock).
ie_trait_execute(self, f) ==
    IF self.tag = f THEN Err(self.tag) ELSE ie_execute(self)

(***************************************************************************)
(* dyn_trait.rs                                                            *)
(***************************************************************************)
\* dy_execute with a fault injected: consensus_result is false
dy_execute_follower(self) ==
    CASE self.tag = "DiscoverNodes" -> Ok(St("ConnectNodes", get_service_nodes, <<>>, FALSE))
      [] self.tag = "ConnectNodes" -> Ok(St("Consensus", <<>>, connect_to_nodes(self.nodes), FALSE))
      [] self.tag = "Consensus" -> Ok(St("Follower", <<>>, self.connections, FALSE))
      [] self.tag = "Leader" -> Ok(NoState)
      [] self.tag = "Follower" -> Ok(NoState)

\* dy_execute with a fault injected: Leader hands over to a Follower instead of ending
dy_execute_extra(self) ==
    CASE self.tag = "DiscoverNodes" -> Ok(St("ConnectNodes", get_service_nodes, <<>>, FALSE))
      [] self.tag = "ConnectNodes" -> Ok(St("Consensus", <<>>, connect_to_nodes(self.nodes), FALSE))
      [] self.tag = "Consensus" -> Ok(St("Leader", <<>>, self.connections, FALSE))
      [] self.tag = "Leader" -> Ok(St("Follower", <<>>, self.connections, FALSE))
      [] self.tag = "Follower" -> Ok(NoState)

\* impl State for DiscoverNodes .. Follower: Ok(Some(next)) or Ok(None).
dy_execute(self) ==
    CASE self.tag = "DiscoverNodes" ->
            LET nodes == get_service_nodes
            IN  Ok(St("ConnectNodes", nodes, <<>>, FALSE))
      [] self.tag = "ConnectNodes" ->
            LET nodes == connect_to_nodes(self.nodes)
            IN  Ok(St("Consensus", <<>>, nodes, FALSE))
      [] self.tag = "Consensus" ->
            LET consensus_result == TRUE
            IN  IF consensus_result THEN Ok(St("Leader", <<>>, self.connections, FALSE))
                                    ELSE Ok(St("Follower", <<>>, self.connections, FALSE))
      [] self.tag = "Leader" -> Ok(NoState)
      [] self.tag = "Follower" -> Ok(NoState)

\* trait State::execute of dyn_trait.rs as the executor sees it (see ie_trait_execute).
dy_trait_execute(self, f) ==
    IF self.tag = f THEN Err(self.tag) ELSE dy_execute(self)

(***************************************************************************)
(* compose_trait.rs                                                        *)
(***************************************************************************)
\* StateComposer::and_then: wraps the previous stage and the mapping function.
and_then(previous, map_fn) ==
    [tag |-> "AndThen", previous |-> previous, map_fn |-> map_fn]

\* The mapping functions run_full_state_machine passes to and_then.
ct_map_fn(map_fn, output) ==
    CASE map_fn = "ConnectNodes::new" -> St("ConnectNodes", output, <<>>, FALSE)
      [] map_fn = "Consensus::new" -> St("Consensus", <<>>, output, FALSE)
      [] map_fn = "LeaderOrFollower::new" -> St("LeaderOrFollower", <<>>, output[2], output[1])

\* impl State for DiscoverNodes, ConnectNodes, Consensus, Leader, Follower.
ct_stage_execute(self) ==
    CASE self.tag = "DiscoverNodes" -> Ok(get_service_nodes)
      [] self.tag = "ConnectNodes" -> Ok(connect_to_nodes(self.nodes))
      [] self.tag = "Consensus" -> Ok(<<TRUE, self.connections>>)
      [] self.tag = "Leader" -> Ok(<<>>)
      [] self.tag = "Follower" -> Ok(<<>>)

Call(op, name, state) == [op |-> op, name |-> name, state |-> state]

\* ct_execute with a fault injected: the next stage is built and run although the
\* previous one failed; the failure is returned afterwards
ct_no_output(map_fn) == IF map_fn = "LeaderOrFollower::new" THEN <<TRUE, <<>>>> ELSE <<>>

RECURSIVE ct_execute_eager(_, _, _)
ct_execute_eager(self, f, trace) ==
    CASE self.tag = "AndThen" ->
            LET p == ct_execute_eager(self.previous, f, trace)
                out == IF p.res.kind = "Ok" THEN p.res.val ELSE ct_no_output(self.map_fn)
                next_task == ct_map_fn(self.map_fn, out)
                q == ct_execute_eager(next_task, f,
                                      Append(p.trace, Call("map", self.map_fn, next_task)))
            IN  IF p.res.kind # "Ok" THEN [res |-> p.res, trace |-> q.trace] ELSE q
      [] self.tag = "LeaderOrFollower" ->
            LET t == Append(trace, Call("execute", self.tag, self))
            IN  IF self.is_leader
                THEN ct_execute_eager(St("Leader", <<>>, self.connections, FALSE), f, t)
                ELSE ct_execute_eager(St("Follower", <<>>, self.connections, FALSE), f, t)
      [] OTHER ->
            [res |-> IF self.tag = f THEN Err(self.tag) ELSE ct_stage_execute(self),
             trace |-> Append(trace, Call("execute", self.tag, self))]

\* ct_execute with a fault injected: the next stage is built from the mapping
\* function's default and run before the previous stage
RECURSIVE ct_execute_swapped(_, _, _)
ct_execute_swapped(self, f, trace) ==
    CASE self.tag = "AndThen" ->
            LET early == ct_map_fn(self.map_fn, ct_no_output(self.map_fn))
                q == ct_execute_swapped(early, f, Append(trace, Call("map", self.map_fn, early)))
                p == ct_execute_swapped(self.previous, f, q.trace)
            IN  IF p.res.kind # "Ok" THEN p ELSE [res |-> q.res, trace |-> p.trace]
      [] self.tag = "LeaderOrFollower" ->
            LET t == Append(trace, Call("execute", self.tag, self))
            IN  IF self.is_leader
                THEN ct_execute_swapped(St("Leader", <<>>, self.connections, FALSE), f, t)
                ELSE ct_execute_swapped(St("Follower", <<>>, self.connections, FALSE), f, t)
      [] OTHER ->
            [res |-> IF self.tag = f THEN Err(self.tag) ELSE ct_stage_execute(self),
             trace |-> Append(trace, Call("execute", self.tag, self))]

\* trait State::execute of compose_trait.rs, for AndThen, LeaderOrFollower and
\* the plain stages.  Returns the Result and the trace of calls made, in
\* order: an "execute" entry per stage run (with the stage value) and a "map"
\* entry per mapping function applied (with the stage it built).
RECURSIVE ct_execute(_, _, _)
ct_execute(self, f, trace) ==
    CASE self.tag = "AndThen" ->
            LET p == ct_execute(self.previous, f, trace)
            IN  IF p.res.kind # "Ok" THEN p
                ELSE LET next_task == ct_map_fn(self.map_fn, p.res.val)
                     IN  ct_execute(next_task, f,
                                    Append(p.trace, Call("map", self.map_fn, next_task)))
      [] self.tag = "LeaderOrFollower" ->
            LET t == Append(trace, Call("execute", self.tag, self))
            IN  IF self.is_leader
                THEN ct_execute(St("Leader", <<>>, self.connections, FALSE), f, t)
                ELSE ct_execute(St("Follower", <<>>, self.connections, FALSE), f, t)
      [] OTHER ->
            [res |-> IF self.tag = f THEN Err(self.tag) ELSE ct_stage_execute(self),
             trace |-> Append(trace, Call("execute", self.tag, self))]

(***************************************************************************)
(* external_enum.rs                                                        *)
(***************************************************************************)
\* ee_execute with a fault injected: the event leaves Consensus's is_leader as it was
ee_execute_noleader(self, input) ==
    CASE self.tag = "DiscoverNodes" -> Ok([self EXCEPT !.nodes = get_service_nodes])
      [] self.tag = "ConnectNodes" -> Ok([self EXCEPT !.connections = connect_to_nodes(self.nodes)])
      [] self.tag = "Consensus" -> Ok(self)
      [] self.tag = "Leader" -> Ok(self)
      [] self.tag = "Follower" -> Ok(self)
      [] self.tag = "Terminate" -> Panic

\* impl ExternallyDrivenTransition for FullStateMachine: execute(&mut self, input)
\* The result carries the state as the event left it.
ee_execute(self, input) ==
    CASE self.tag = "DiscoverNodes" -> Ok([self EXCEPT !.nodes = get_service_nodes])
      [] self.tag = "ConnectNodes" -> Ok([self EXCEPT !.connections = connect_to_nodes(self.nodes)])
      [] self.tag = "Consensus" -> Ok([self EXCEPT !.is_leader = TRUE])
      [] self.tag = "Leader" -> Ok(self)
      [] self.tag = "Follower" -> Ok(self)
      [] self.tag = "Terminate" -> Panic

\* trait ExternallyDrivenTransition::execute as the executor sees it (see ie_trait_execute).
ee_trait_execute(self, input, f) ==
    IF self.tag = f THEN Err(self.tag) ELSE ee_execute(self, input)

\* ee_is_terminal_state with a fault injected: no state counts as terminal
ee_is_terminal_state_never(self) == FALSE

\* impl ExternallyDrivenTransition for FullStateMachine: is_terminal_state
ee_is_terminal_state(self) == self.tag = "Terminate"

\* impl ExternallyDrivenTransition for FullStateMachine: transition
ee_transition(self) ==
    CASE self.tag = "DiscoverNodes" -> Ok(St("ConnectNodes", self.nodes, <<>>, FALSE))
      [] self.tag = "ConnectNodes" -> Ok(St("Consensus", <<>>, self.connections, FALSE))
      [] self.tag = "Consensus" ->
            IF self.is_leader THEN Ok(St("Leader", <<>>, self.connections, FALSE))
                              ELSE Ok(St("Follower", <<>>, self.connections, FALSE))
      [] self.tag = "Leader" -> Ok(Terminate)
      [] self.tag = "Follower" -> Ok(Terminate)
      [] self.tag = "Terminate" -> Panic

(***************************************************************************)
(* State                                                                   *)
(***************************************************************************)
VARIABLES
    input,      \* the initial state handed to every engine: [tag, addrs]
    fault,      \* the phase whose execute returns Err, or "none" (the mock)
    ie_state, ie_pc, ie_err, ie_log, ie_hist,   \* internally_driven_executor
    dy_state, dy_pc, dy_err, dy_log, dy_hist,   \* dyn_trait::executor
    ct_chain, ct_pc, ct_err, ct_trace,          \* the and_then chain and its execute
    ee_state, ee_pc, ee_err, ee_log, ee_hist,   \* externally_driven_executor
    ee_trans,                                   \* states transition was called on
    ee_late,                                    \* events applied after the Sender was dropped
    ee_recv,                                    \* events applied to each state held, in order
    tx_alive, tx_sent, rx_queue,                \* the mpsc channel: Sender and buffer
    rx_at_close,                                \* events buffered when the Sender was dropped
    fn_execute, fn_connect                      \* results of direct calls

\* *_pc: "loop"/"built" while running, then "Ok", "Err" or "Panic"
\* *_err: the phase whose failure the driver returned, "none" if it returned none
\* *_log: the phases execute was called on, in order
\* *_hist: the phases current_state has held, in order

ie_vars == <<ie_state, ie_pc, ie_err, ie_log, ie_hist>>
dy_vars == <<dy_state, dy_pc, dy_err, dy_log, dy_hist>>
ct_vars == <<ct_chain, ct_pc, ct_err, ct_trace>>
ee_vars == <<ee_state, ee_pc, ee_err, ee_log, ee_hist, ee_trans, ee_late, ee_recv,
             tx_alive, tx_sent, rx_queue, rx_at_close>>
fn_vars == <<fn_execute, fn_connect>>
vars == <<input, fault, ie_vars, dy_vars, ct_vars, ee_vars, fn_vars>>

Tags == Phases \cup {"Terminate"}
Inputs == [tag : Tags, addrs : AddrLists]
Faults == Phases \cup {"none"}
Unset == [kind |-> "Unset", val |-> NoState]

\* The value each module's constructors give for an input.
ie_initial(in) ==
    CASE in.tag = "DiscoverNodes" -> St("DiscoverNodes", <<>>, <<>>, FALSE)
      [] in.tag = "ConnectNodes" -> St("ConnectNodes", in.addrs, <<>>, FALSE)
      [] in.tag \in {"Consensus", "Leader", "Follower"} -> St(in.tag, <<>>, ConnsOf(in.addrs), FALSE)
      [] in.tag = "Terminate" -> Terminate

dy_initial(in) == ie_initial(in)

ee_initial(in) ==
    CASE in.tag = "DiscoverNodes" -> St("DiscoverNodes", in.addrs, <<>>, FALSE)
      [] in.tag = "ConnectNodes" -> St("ConnectNodes", in.addrs, <<>>, FALSE)
      [] in.tag \in {"Consensus", "Leader", "Follower"} -> St(in.tag, <<>>, ConnsOf(in.addrs), FALSE)
      [] in.tag = "Terminate" -> Terminate

\* The chain of run_full_state_machine, and its tails for a later first stage.
ct_initial(in) ==
    CASE in.tag = "DiscoverNodes" ->
            and_then(and_then(and_then(St("DiscoverNodes", <<>>, <<>>, FALSE),
                                       "ConnectNodes::new"),
                              "Consensus::new"),
                     "LeaderOrFollower::new")
      [] in.tag = "ConnectNodes" ->
            and_then(and_then(St("ConnectNodes", in.addrs, <<>>, FALSE), "Consensus::new"),
                     "LeaderOrFollower::new")
      [] in.tag = "Consensus" ->
            and_then(St("Consensus", <<>>, ConnsOf(in.addrs), FALSE), "LeaderOrFollower::new")
      [] in.tag = "Leader" -> St("LeaderOrFollower", <<>>, ConnsOf(in.addrs), TRUE)
      [] in.tag = "Follower" -> St("LeaderOrFollower", <<>>, ConnsOf(in.addrs), FALSE)
      [] in.tag = "Terminate" -> NoState

Init ==
    /\ input \in Inputs
    /\ fault \in Faults
    /\ ie_state = ie_initial(input) /\ ie_pc = "loop" /\ ie_err = "none"
    /\ ie_log = <<>> /\ ie_hist = <<input.tag>>
    \* dyn_trait and compose_trait have no Terminate value: nothing is run for it
    /\ dy_state = dy_initial(input)
    /\ dy_pc = IF input.tag = "Terminate" THEN "off" ELSE "loop"
    /\ dy_err = "none" /\ dy_log = <<>>
    /\ dy_hist = IF input.tag = "Terminate" THEN <<>> ELSE <<input.tag>>
    /\ ct_chain = ct_initial(input)
    /\ ct_pc = IF input.tag = "Terminate" THEN "off" ELSE "built"
    /\ ct_err = "none" /\ ct_trace = <<>>
    /\ ee_state = ee_initial(input) /\ ee_pc = "loop" /\ ee_err = "none"
    /\ ee_log = <<>> /\ ee_hist = <<input.tag>> /\ ee_trans = <<>> /\ ee_late = 0
    /\ ee_recv = <<0>>
    /\ tx_alive = TRUE /\ tx_sent = 0 /\ rx_queue = <<>> /\ rx_at_close = 0
    /\ fn_execute = Unset /\ fn_connect = Unset

\* where a driver stands after a call returned r: `?` returns an Err at once,
\* a panic unwinds, Ok goes on
after_call(r) == IF r.kind = "Ok" THEN "loop" ELSE r.kind
err_of(r) == IF r.kind = "Err" THEN r.val.tag ELSE "none"

(***************************************************************************)
(* internal_enum.rs: internally_driven_executor                            *)
(***************************************************************************)
\* ie_after with a fault injected: the Err is dropped and the loop goes on
ie_after_retry(r) == "loop"

\* `current_state = current_state.execute()?`
ie_after(r) == after_call(r)

\* one pass of `while !current_state.is_terminal_state()` that enters the body
ie_loop_body ==
    /\ ie_pc = "loop"
    /\ ~ie_is_terminal_state(ie_state)
    /\ LET r == ie_trait_execute(ie_state, fault)
       IN  /\ ie_log' = Append(ie_log, ie_state.tag)
           /\ ie_pc' = ie_after(r)
           /\ ie_err' = err_of(r)
           /\ IF r.kind = "Ok"
              THEN /\ ie_state' = r.val
                   /\ ie_hist' = Append(ie_hist, r.val.tag)
              ELSE UNCHANGED <<ie_state, ie_hist>>
    /\ UNCHANGED <<input, fault, dy_vars, ct_vars, ee_vars, fn_vars>>

\* the loop condition fails: Ok(())
ie_loop_exit ==
    /\ ie_pc = "loop"
    /\ ie_is_terminal_state(ie_state)
    /\ ie_pc' = "Ok"
    /\ UNCHANGED <<input, fault, ie_state, ie_err, ie_log, ie_hist,
                   dy_vars, ct_vars, ee_vars, fn_vars>>

(***************************************************************************)
(* dyn_trait.rs: executor                                                  *)
(***************************************************************************)
\* `current_state = state.execute()?`
dy_after(r) == after_call(r)

\* one pass of `while let Some(state) = current_state`
dy_loop_body ==
    /\ dy_pc = "loop"
    /\ dy_state # NoState
    /\ LET r == dy_trait_execute(dy_state, fault)
       IN  /\ dy_log' = Append(dy_log, dy_state.tag)
           /\ dy_pc' = dy_after(r)
           /\ dy_err' = err_of(r)
           /\ IF r.kind = "Ok"
              THEN /\ dy_state' = r.val
                   /\ dy_hist' = IF r.val = NoState THEN dy_hist ELSE Append(dy_hist, r.val.tag)
              ELSE UNCHANGED <<dy_state, dy_hist>>
    /\ UNCHANGED <<input, fault, ie_vars, ct_vars, ee_vars, fn_vars>>

\* current_state is None: Ok(())
dy_loop_exit ==
    /\ dy_pc = "loop"
    /\ dy_state = NoState
    /\ dy_pc' = "Ok"
    /\ UNCHANGED <<input, fault, dy_state, dy_err, dy_log, dy_hist,
                   ie_vars, ct_vars, ee_vars, fn_vars>>

(***************************************************************************)
(* compose_trait.rs: executing the chain                                   *)
(***************************************************************************)
\* `.execute()` on the composed value
ct_run ==
    /\ ct_pc = "built"
    /\ LET r == ct_execute(ct_chain, fault, <<>>)
       IN  /\ ct_trace' = r.trace
           /\ ct_pc' = r.res.kind
           /\ ct_err' = err_of(r.res)
    /\ UNCHANGED <<input, fault, ct_chain, ie_vars, dy_vars, ee_vars, fn_vars>>

(***************************************************************************)
(* external_enum.rs: the channel and externally_driven_executor            *)
(***************************************************************************)
\* Sender::send: the event is buffered
tx_send ==
    /\ tx_alive
    /\ tx_sent < MaxEvents
    /\ rx_queue' = Append(rx_queue, "event")
    /\ tx_sent' = tx_sent + 1
    /\ UNCHANGED <<input, fault, ee_state, ee_pc, ee_err, ee_log, ee_hist, ee_trans, ee_late,
                   ee_recv,
                   tx_alive, rx_at_close, ie_vars, dy_vars, ct_vars, fn_vars>>

\* the Sender is dropped: the channel is closed, its buffer stays
tx_drop ==
    /\ tx_alive
    /\ tx_alive' = FALSE
    /\ rx_at_close' = Len(rx_queue)
    /\ UNCHANGED <<input, fault, ee_state, ee_pc, ee_err, ee_log, ee_hist, ee_trans, ee_late,
                   ee_recv,
                   tx_sent, rx_queue, ie_vars, dy_vars, ct_vars, fn_vars>>

\* ee_after with a fault injected: the Err is dropped and the pass goes on to transition
ee_after_ignore(r) == IF r.kind = "Panic" THEN "Panic" ELSE "loop"

\* `current_state.execute(input)?`
ee_after(r) == after_call(r)

\* one more event applied to the state now held
ee_received(recv) == [recv EXCEPT ![Len(recv)] = @ + 1]

\* ee_loop_body with a fault injected: the event is applied and the phase is
\* kept, without the call of transition
ee_loop_body_stay ==
    /\ ee_pc = "loop"
    /\ rx_queue # <<>>
    /\ rx_queue' = Tail(rx_queue)
    /\ LET r == ee_trait_execute(ee_state, Head(rx_queue), fault)
       IN  /\ ee_log' = Append(ee_log, ee_state.tag)
           /\ ee_late' = IF tx_alive THEN ee_late ELSE ee_late + 1
           /\ ee_err' = err_of(r)
           /\ ee_recv' = ee_received(ee_recv)
           /\ ee_pc' = IF r.kind = "Ok" THEN "loop" ELSE r.kind
           /\ ee_state' = IF r.kind = "Ok" THEN r.val ELSE ee_state
           /\ UNCHANGED <<ee_hist, ee_trans>>
    /\ UNCHANGED <<input, fault, tx_alive, tx_sent, rx_at_close,
                   ie_vars, dy_vars, ct_vars, fn_vars>>

\* events.recv() returns Ok(input): one pass of the loop body
ee_loop_body ==
    /\ ee_pc = "loop"
    /\ rx_queue # <<>>
    /\ rx_queue' = Tail(rx_queue)
    /\ LET r == ee_trait_execute(ee_state, Head(rx_queue), fault)
       IN  /\ ee_log' = Append(ee_log, ee_state.tag)
           /\ ee_late' = IF tx_alive THEN ee_late ELSE ee_late + 1
           /\ ee_err' = err_of(r)
           /\ IF ee_after(r) = "loop"
              THEN LET t == ee_transition(r.val)
                   IN  /\ ee_trans' = Append(ee_trans, r.val.tag)
                       /\ IF t.kind = "Ok"
                          THEN /\ ee_state' = t.val
                               /\ ee_hist' = Append(ee_hist, t.val.tag)
                               /\ ee_recv' = Append(ee_received(ee_recv), 0)
                               /\ ee_pc' = IF ee_is_terminal_state(t.val) THEN "Ok" ELSE "loop"
                          ELSE /\ ee_pc' = t.kind
                               /\ ee_recv' = ee_received(ee_recv)
                               /\ UNCHANGED <<ee_state, ee_hist>>
              ELSE /\ ee_pc' = ee_after(r)
                   /\ ee_recv' = ee_received(ee_recv)
                   /\ UNCHANGED <<ee_state, ee_hist, ee_trans>>
    /\ UNCHANGED <<input, fault, tx_alive, tx_sent, rx_at_close,
                   ie_vars, dy_vars, ct_vars, fn_vars>>

\* ee_loop_exit with a fault injected: the loop ends as soon as the Sender is gone,
\* leaving buffered events unreceived
ee_loop_exit_early ==
    /\ ee_pc = "loop"
    /\ ~tx_alive
    /\ ee_pc' = "Ok"
    /\ UNCHANGED <<input, fault, ee_state, ee_err, ee_log, ee_hist, ee_trans, ee_late,
                   ee_recv,
                   tx_alive, tx_sent, rx_queue, rx_at_close,
                   ie_vars, dy_vars, ct_vars, fn_vars>>

\* ee_loop_exit with a fault injected: recv gives up on an empty buffer although
\* the Sender is still there
ee_loop_exit_timeout ==
    /\ ee_pc = "loop"
    /\ rx_queue = <<>>
    /\ ee_pc' = "Ok"
    /\ UNCHANGED <<input, fault, ee_state, ee_err, ee_log, ee_hist, ee_trans, ee_late,
                   ee_recv,
                   tx_alive, tx_sent, rx_queue, rx_at_close,
                   ie_vars, dy_vars, ct_vars, fn_vars>>

\* events.recv() returns Err: the Sender is gone and the buffer is empty
ee_loop_exit ==
    /\ ee_pc = "loop"
    /\ rx_queue = <<>>
    /\ ~tx_alive
    /\ ee_pc' = "Ok"
    /\ UNCHANGED <<input, fault, ee_state, ee_err, ee_log, ee_hist, ee_trans, ee_late,
                   ee_recv,
                   tx_alive, tx_sent, rx_queue, rx_at_close,
                   ie_vars, dy_vars, ct_vars, fn_vars>>

(***************************************************************************)
(* Direct calls of the pure functions on the drawn input                   *)
(***************************************************************************)
fn_call_execute ==
    /\ fn_execute = Unset
    /\ fn_execute' = ie_execute(ie_initial(input))
    /\ UNCHANGED <<input, fault, fn_connect, ie_vars, dy_vars, ct_vars, ee_vars>>

fn_call_connect ==
    /\ fn_connect = Unset
    /\ fn_connect' = Ok(connect_to_nodes(input.addrs))
    /\ UNCHANGED <<input, fault, fn_execute, ie_vars, dy_vars, ct_vars, ee_vars>>

(***************************************************************************)
(* Specifications                                                          *)
(***************************************************************************)
NextEnum == ie_loop_body \/ ie_loop_exit
NextDyn == dy_loop_body \/ dy_loop_exit
NextChain == ct_run
NextExt == tx_send \/ tx_drop \/ ee_loop_body \/ ee_loop_exit
NextFn == fn_call_execute \/ fn_call_connect

\* one engine at a time, with every failing phase
SpecEnum == Init /\ [][NextEnum]_vars
SpecDyn == Init /\ [][NextDyn]_vars
SpecChain == Init /\ [][NextChain]_vars
SpecExt == Init /\ [][NextExt]_vars
SpecFn == Init /\ [][NextFn]_vars

\* the four engines side by side on the same input, in any interleaving, with
\* the mock's phases (none of which fails)
InitMock == Init /\ fault = "none"
Next == NextEnum \/ NextDyn \/ NextChain \/ NextExt
Spec == InitMock /\ [][Next]_vars

\* the engines run one after the other, as the benchmark runs them, with every
\* failing phase
ie_returned == ie_pc # "loop"
dy_returned == dy_pc # "loop"
ct_returned == ct_pc # "built"
NextSeq ==
    \/ NextEnum
    \/ (ie_returned /\ NextDyn)
    \/ (ie_returned /\ dy_returned /\ NextChain)
    \/ (ie_returned /\ dy_returned /\ ct_returned /\ NextExt)
SpecSeq == Init /\ [][NextSeq]_vars

(***************************************************************************)
(* Helpers of the properties                                               *)
(***************************************************************************)
IsPrefix(s, t) == Len(s) <= Len(t) /\ \A i \in 1..Len(s) : s[i] = t[i]
Last(s) == s[Len(s)]
Count(s, x) == Cardinality({i \in 1..Len(s) : s[i] = x})

\* the place of a phase in the fixed order
Rank(tag) ==
    CASE tag = "DiscoverNodes" -> 1
      [] tag = "ConnectNodes" -> 2
      [] tag = "Consensus" -> 3
      [] tag \in {"Leader", "Follower"} -> 4
      [] tag = "Terminate" -> 5

\* the two complete workflows
ViaLeader == <<"DiscoverNodes", "ConnectNodes", "Consensus", "Leader", "Terminate">>
ViaFollower == <<"DiscoverNodes", "ConnectNodes", "Consensus", "Follower", "Terminate">>
Workflows == {ViaLeader, ViaFollower}

\* a history with the Terminate marker left out (dyn_trait ends by None)
Live(h) == SelectSeq(h, LAMBDA t : t \in Phases)

\* the phases the chain executed, in order (LeaderOrFollower is the stage
\* that builds and runs Leader or Follower, not a phase of its own)
ct_is_phase_call(c) == c.op = "execute" /\ c.name \in Phases
ct_hist == [i \in 1..Len(SelectSeq(ct_trace, ct_is_phase_call)) |->
                SelectSeq(ct_trace, ct_is_phase_call)[i].name]

ee_terminal == ee_pc = "Ok" /\ ee_is_terminal_state(ee_state)

(***************************************************************************)
(* C1: started from DiscoverNodes, every strategy visits DiscoverNodes,    *)
(* ConnectNodes, Consensus, Leader or Follower, Terminate, in this order:  *)
(* what it has visited so far is always an initial part of that sequence   *)
(* (nothing skipped, repeated or gone back to), and it is the whole        *)
(* sequence once the strategy has run to its end (dyn_trait and the chain  *)
(* end without a Terminate value).                                         *)
(***************************************************************************)
C1_Order ==
    input.tag = "DiscoverNodes" =>
        /\ \E w \in Workflows : IsPrefix(ie_hist, w)
        /\ \E w \in Workflows : IsPrefix(dy_hist, Live(w))
        /\ \E w \in Workflows : IsPrefix(ct_hist, Live(w))
        /\ \E w \in Workflows : IsPrefix(ee_hist, w)
        /\ ie_pc \in {"loop", "Ok"} /\ (ie_pc = "Ok" => ie_hist \in Workflows)
        /\ dy_pc \in {"loop", "Ok"} /\ (dy_pc = "Ok" => \E w \in Workflows : dy_hist = Live(w))
        /\ ct_pc \in {"built", "Ok"} /\ (ct_pc = "Ok" => \E w \in Workflows : ct_hist = Live(w))
        /\ ee_pc \in {"loop", "Ok"} /\ (ee_terminal => ee_hist \in Workflows)

C1_Witness ==
    /\ input.tag = "DiscoverNodes"
    /\ ie_pc = "Ok" /\ dy_pc = "Ok" /\ ct_pc = "Ok" /\ ee_terminal
    /\ ee_hist = ViaLeader

(***************************************************************************)
(* C2: strategy equivalence.  On the same input (any phase, any            *)
(* connection list) the four engines, run side by side, visit the same     *)
(* phases in the same order: at every moment the phases any two of them    *)
(* have visited agree as far as the shorter goes, none of them fails, and  *)
(* two that have run to their end have visited exactly the same phases.    *)
(***************************************************************************)
Agree(h1, h2) == IsPrefix(h1, h2) \/ IsPrefix(h2, h1)

C2_Equivalence ==
    input.tag \in Phases =>
        /\ ie_pc \in {"loop", "Ok"} /\ dy_pc \in {"loop", "Ok"}
        /\ ct_pc \in {"built", "Ok"} /\ ee_pc \in {"loop", "Ok"}
        /\ Agree(Live(ie_hist), dy_hist)
        /\ Agree(Live(ie_hist), Live(ee_hist))
        /\ Agree(dy_hist, Live(ee_hist))
        /\ Agree(ct_hist, Live(ie_hist)) /\ Agree(ct_hist, dy_hist) /\ Agree(ct_hist, Live(ee_hist))
        /\ (ie_pc = "Ok" /\ dy_pc = "Ok" => Live(ie_hist) = dy_hist)
        /\ (ie_pc = "Ok" /\ ct_pc = "Ok" => Live(ie_hist) = ct_hist)
        /\ (ie_pc = "Ok" /\ ee_terminal => ie_hist = ee_hist)
        /\ (dy_pc = "Ok" /\ ct_pc = "Ok" => dy_hist = ct_hist)
        /\ (dy_pc = "Ok" /\ ee_terminal => dy_hist = Live(ee_hist))
        /\ (ct_pc = "Ok" /\ ee_terminal => ct_hist = Live(ee_hist))
        \* two looping engines that have come equally far hold the same phase value
        /\ (Len(ie_hist) = Len(dy_hist) /\ dy_state # NoState => ie_state = dy_state)
        /\ (Len(ie_hist) = Len(ee_hist) /\ Len(ie_hist) > 1 => ie_state = ee_state)

C2_Witness ==
    /\ input.tag = "ConnectNodes" /\ Len(input.addrs) = 2
    /\ ie_pc = "Ok" /\ dy_pc = "Ok" /\ ct_pc = "Ok" /\ ee_terminal
    /\ Len(ie_log) = 3 /\ Len(dy_log) = 3 /\ Len(ee_log) = 3

(***************************************************************************)
(* C3: FullStateMachine::execute of internal_enum is total on the five     *)
(* live variants, returning Ok with the variant one step further in the    *)
(* fixed order (Leader and Follower both give Terminate), and panics       *)
(* (unreachable!) on Terminate instead of returning a state.               *)
(***************************************************************************)
C3_Totality ==
    fn_execute # Unset =>
        IF input.tag \in Phases
        THEN /\ fn_execute.kind = "Ok"
             /\ fn_execute.val.tag \in Tags
             /\ Rank(fn_execute.val.tag) = Rank(input.tag) + 1
        ELSE fn_execute.kind = "Panic"

C3_Witness ==
    /\ input.tag = "Consensus"
    /\ fn_execute.kind = "Ok" /\ fn_execute.val.tag = "Leader"

(***************************************************************************)
(* C4: internally_driven_executor never calls execute on Terminate, for    *)
(* any initial state: is_terminal_state is true of Terminate only, no      *)
(* phase in the log of execute calls is Terminate, the executor never      *)
(* panics, and a Terminate it reaches follows a Leader or a Follower.      *)
(***************************************************************************)
C4_NoExecuteOnTerminate ==
    /\ ie_is_terminal_state(ie_state) <=> ie_state.tag = "Terminate"
    /\ \A i \in 1..Len(ie_log) : ie_log[i] # "Terminate"
    /\ ie_pc # "Panic"
    /\ \A i \in 2..Len(ie_hist) :
          ie_hist[i] = "Terminate" => ie_hist[i - 1] \in {"Leader", "Follower"}
    /\ \A t \in Phases :
          ~ie_is_terminal_state(St(t, input.addrs, ConnsOf(input.addrs), FALSE))

C4_Witness ==
    /\ input.tag = "Terminate"
    /\ ie_pc = "Ok" /\ ie_log = <<>>

(***************************************************************************)
(* C5: chain short-circuit.  When a stage of an and_then chain fails, the  *)
(* chain's result is that stage's failure, the failing stage is the last   *)
(* call made (no mapping function is applied and no later stage is built   *)
(* or executed), and it was executed once; so a failing discovery stage    *)
(* leaves ConnectNodes and Consensus unexecuted.  A chain that returns Ok  *)
(* executed no failing stage.                                              *)
(***************************************************************************)
ct_executed(tag) == Cardinality({i \in 1..Len(ct_trace) :
                                    ct_trace[i].op = "execute" /\ ct_trace[i].name = tag})

C5_ShortCircuit ==
    /\ ct_pc = "Err" =>
          /\ ct_err = fault
          /\ Last(ct_trace).op = "execute" /\ Last(ct_trace).name = fault
          /\ ct_executed(fault) = 1
          /\ (fault = "DiscoverNodes" =>
                /\ Len(ct_trace) = 1
                /\ ct_executed("ConnectNodes") = 0 /\ ct_executed("Consensus") = 0)
    /\ ct_pc = "Ok" => fault = "none" \/ ct_executed(fault) = 0
    /\ ct_pc # "Panic"

C5_Witness ==
    /\ input.tag = "DiscoverNodes" /\ fault = "DiscoverNodes"
    /\ ct_pc = "Err" /\ Len(ct_trace) = 1

(***************************************************************************)
(* C6 as claimed: once the Sender is dropped no event is applied to the    *)
(* phase (here for a live initial state and phases that never fail).       *)
(***************************************************************************)
C6_NothingAppliedAfterClose ==
    (input.tag \in Phases /\ fault = "none") => ee_late = 0

(***************************************************************************)
(* C6 amended: dropping the Sender ends the loop with Ok once the events   *)
(* buffered before the drop have been received.  The events applied after  *)
(* the drop are exactly those that were in the buffer at the drop, none is *)
(* applied once the channel is closed and empty, an executor that returned *)
(* Ok short of Terminate found the channel closed and empty, and a failure *)
(* comes only from applying an event, never from the close.                *)
(***************************************************************************)
C6_CloseEndsLoopAfterDrain ==
    /\ tx_alive => ee_late = 0
    /\ ~tx_alive /\ ee_pc = "loop" => ee_late + Len(rx_queue) = rx_at_close
    /\ ~tx_alive => ee_late <= rx_at_close
    /\ (ee_pc = "Ok" /\ ~ee_is_terminal_state(ee_state)) => (~tx_alive /\ rx_queue = <<>>)
    /\ ee_pc = "Err" => (fault \in Phases /\ ee_log # <<>> /\ Last(ee_log) = fault)
    /\ ee_pc = "Panic" => input.tag = "Terminate"

C6_Witness ==
    /\ ~tx_alive /\ rx_at_close = 2 /\ ee_late = 2
    /\ ee_pc = "Ok" /\ ee_state.tag = "Consensus"

(***************************************************************************)
(* C7: the dyn_trait executor ends (a state's execute returns None) after  *)
(* exactly as many execute calls as the internal_enum executor makes to    *)
(* reach Terminate from the same initial state: 4 from DiscoverNodes, and  *)
(* it never makes more.                                                    *)
(***************************************************************************)
C7_SameNumberOfSteps ==
    input.tag \in Phases =>
        /\ (dy_pc = "Ok" /\ ie_pc = "Ok") => Len(dy_log) = Len(ie_log)
        /\ dy_pc = "Ok" => (dy_state = NoState /\ Len(dy_log) = 5 - Rank(input.tag))
        /\ dy_pc = "loop" /\ dy_state # NoState => Len(dy_log) < 5 - Rank(input.tag)
        /\ dy_pc \in {"loop", "Ok"}

C7_Witness ==
    /\ input.tag = "DiscoverNodes"
    /\ dy_pc = "Ok" /\ ie_pc = "Ok" /\ Len(dy_log) = 4 /\ Len(ie_log) = 4

(***************************************************************************)
(* C8: failure propagation.  In each driver, a phase whose execute (or     *)
(* event application) fails makes the driver return that failure: the      *)
(* failing call is the last call made and was made once (no retry), the    *)
(* state is still the failing phase (no later phase built), in the         *)
(* event-driven engine no transition follows the failed application, and   *)
(* a driver that called a failing phase does not go on or return Ok.       *)
(***************************************************************************)
PropagatesFailure(pc, err, log, hist) ==
    /\ pc = "Err" => /\ fault \in Phases /\ err = fault
                     /\ Last(log) = fault /\ Count(log, fault) = 1
                     /\ Last(hist) = fault
    /\ Count(log, fault) > 0 => pc = "Err"

C8_FailurePropagation ==
    /\ PropagatesFailure(ie_pc, ie_err, ie_log, ie_hist)
    /\ PropagatesFailure(dy_pc, dy_err, dy_log, dy_hist)
    /\ PropagatesFailure(ee_pc, ee_err, ee_log, ee_hist)
    /\ ee_pc = "Err" => Len(ee_trans) = Len(ee_log) - 1
    /\ ee_pc # "Err" /\ ee_pc # "Panic" => Len(ee_trans) = Len(ee_log)
    /\ ct_pc = "Err" => /\ ct_err = fault /\ ct_executed(fault) = 1
                        /\ Last(ct_trace).op = "execute" /\ Last(ct_trace).name = fault
    /\ ct_executed(fault) > 0 => ct_pc = "Err"

C8_Witness ==
    /\ input.tag = "DiscoverNodes" /\ fault = "Consensus"
    /\ ie_pc = "Err" /\ dy_pc = "Err" /\ ct_pc = "Err" /\ ee_pc = "Err"
    /\ Len(ee_log) = 3 /\ Len(ee_trans) = 2

(***************************************************************************)
(* C9: empty peer set.  Discovery returns no peers: ConnectNodes then      *)
(* holds an empty address list, connect_to_nodes of it is empty, Consensus *)
(* holds an empty connection list, and the workflow goes on through        *)
(* ConnectNodes, Consensus, Leader to its end, just as it does from a      *)
(* ConnectNodes holding any address list.                                  *)
(***************************************************************************)
C9_EmptyPeers ==
    /\ input.tag = "DiscoverNodes" =>
          /\ \A st \in {ie_state, dy_state, ee_state} :
                /\ st.tag = "ConnectNodes" => (st.nodes = <<>> /\ connect_to_nodes(st.nodes) = <<>>)
                /\ st.tag \in {"Consensus", "Leader", "Follower"} => st.connections = <<>>
          /\ \A i \in 1..Len(ct_trace) :
                /\ ct_trace[i].state.nodes = <<>>
                /\ ct_trace[i].state.connections = <<>>
    /\ input.tag \in {"DiscoverNodes", "ConnectNodes"} =>
          /\ ie_pc = "Ok" => ie_hist = SubSeq(ViaLeader, Rank(input.tag), 5)
          /\ dy_pc = "Ok" => dy_hist = SubSeq(ViaLeader, Rank(input.tag), 4)
          /\ ct_pc = "Ok" => ct_hist = SubSeq(ViaLeader, Rank(input.tag), 4)
          /\ ee_terminal => ee_hist = SubSeq(ViaLeader, Rank(input.tag), 5)
          /\ ie_pc \in {"loop", "Ok"} /\ dy_pc \in {"loop", "Ok"}
          /\ ct_pc \in {"built", "Ok"} /\ ee_pc \in {"loop", "Ok"}

C9_Witness ==
    /\ input.tag = "DiscoverNodes" /\ input.addrs # <<>>
    /\ ie_state.tag = "Consensus" /\ ie_state.connections = <<>>
    /\ ee_state.tag = "Consensus" /\ ee_state.connections = <<>>
    /\ ct_pc = "Ok" /\ dy_pc = "Ok"

(***************************************************************************)
(* C10: connect_to_nodes returns one connection per address, in order:     *)
(* the result is as long as the input and its i-th connection is the one   *)
(* made from the i-th address.                                             *)
(***************************************************************************)
C10_OnePerAddressInOrder ==
    fn_connect # Unset =>
        /\ fn_connect.kind = "Ok"
        /\ Len(fn_connect.val) = Len(input.addrs)
        /\ \A i \in 1..Len(input.addrs) :
              fn_connect.val[i] = NodeConnection_connect(input.addrs[i])

C10_Witness ==
    /\ fn_connect # Unset
    /\ Len(input.addrs) = 2 /\ input.addrs[1] # input.addrs[2]
    /\ fn_connect.val[1]._addr = input.addrs[1] /\ fn_connect.val[2]._addr = input.addrs[2]

(***************************************************************************)
(* C11: the leadership decision is true, so in the four strategies the     *)
(* phase after Consensus is Leader, Follower is never visited, and the run *)
(* reaches its end without error.  In the event-driven engine a Consensus  *)
(* waiting for its event still holds is_leader = false: the Leader that    *)
(* follows comes from the value the event set.                             *)
(***************************************************************************)
LeaderAfterConsensus(h) ==
    /\ \A i \in 1..Len(h) : h[i] # "Follower"
    /\ \A i \in 1..Len(h) : (h[i] = "Consensus" /\ i < Len(h)) => h[i + 1] = "Leader"

C11_LeaderFollowsConsensus ==
    input.tag \in {"DiscoverNodes", "ConnectNodes", "Consensus"} =>
        /\ LeaderAfterConsensus(ie_hist) /\ LeaderAfterConsensus(dy_hist)
        /\ LeaderAfterConsensus(ct_hist) /\ LeaderAfterConsensus(ee_hist)
        /\ \A i \in 1..Len(ct_trace) :
              ct_trace[i].name = "LeaderOrFollower" => ct_trace[i].state.is_leader
        /\ ee_state.tag = "Consensus" => ~ee_state.is_leader
        /\ ie_pc \in {"loop", "Ok"} /\ dy_pc \in {"loop", "Ok"}
        /\ ct_pc \in {"built", "Ok"} /\ ee_pc \in {"loop", "Ok"}
        /\ ie_pc = "Ok" => (ie_state = Terminate /\ ie_hist[Len(ie_hist) - 1] = "Leader")
        /\ dy_pc = "Ok" => Last(dy_hist) = "Leader"
        /\ ct_pc = "Ok" => Last(ct_hist) = "Leader"
        /\ ee_terminal => ee_hist[Len(ee_hist) - 1] = "Leader"

C11_Witness ==
    /\ input.tag = "DiscoverNodes"
    /\ ie_pc = "Ok" /\ dy_pc = "Ok" /\ ct_pc = "Ok" /\ ee_terminal
    /\ "Leader" \in {ee_hist[i] : i \in 1..Len(ee_hist)}

(***************************************************************************)
(* C12: the event-driven step.  Every event received is applied to the     *)
(* current phase; if the application succeeded transition is called once,  *)
(* on that same phase, and gives the next state, and then terminality is   *)
(* checked.  So the transitions made are as many as the events applied     *)
(* with success, and the executor has left its loop only on a terminal     *)
(* state, on a closed and empty channel, or on a failed application.       *)
(***************************************************************************)
ee_applied_ok == Len(ee_log) - (IF ee_err # "none" \/ ee_pc = "Panic" THEN 1 ELSE 0)

C12_EventStep ==
    /\ Len(ee_log) = tx_sent - Len(rx_queue)
    /\ Len(ee_trans) = ee_applied_ok
    /\ \A i \in 1..Len(ee_trans) : ee_trans[i] = ee_log[i] /\ ee_hist[i] = ee_log[i]
    /\ Len(ee_hist) = 1 + Len(ee_trans)
    /\ ee_err # "none" => ee_pc = "Err"
    /\ (ee_pc = "loop" /\ ee_log # <<>>) => ~ee_is_terminal_state(ee_state)
    /\ ee_pc = "Ok" => (ee_is_terminal_state(ee_state) \/ (~tx_alive /\ rx_queue = <<>>))
    /\ ee_pc = "Err" => (ee_err = fault /\ Last(ee_log) = fault)
    /\ ee_pc = "Panic" => ee_is_terminal_state(ee_state)

C12_Witness ==
    /\ input.tag = "DiscoverNodes" /\ fault = "Leader"
    /\ ee_pc = "Err" /\ Len(ee_log) = 4 /\ Len(ee_trans) = 3

discovered == IF input.tag = "DiscoverNodes" THEN get_service_nodes ELSE input.addrs
HoldsConnections(st) ==
    /\ st.tag = "ConnectNodes" => st.nodes = discovered
    /\ st.tag \in {"Consensus", "LeaderOrFollower", "Leader", "Follower"} =>
          st.connections = ConnsOf(discovered)

C14_ConnectionsHandedOn ==
    input.tag \in Phases =>
        /\ HoldsConnections(ie_state) /\ HoldsConnections(dy_state) /\ HoldsConnections(ee_state)
        /\ \A i \in 1..Len(ct_trace) : HoldsConnections(ct_trace[i].state)

C14_Witness ==
    /\ input.tag = "ConnectNodes" /\ Len(input.addrs) = 2 /\ input.addrs[1] # input.addrs[2]
    /\ ie_state.tag = "Leader" /\ dy_state.tag = "Leader" /\ ee_state.tag = "Leader"
    /\ ie_state.connections = <<[_addr |-> input.addrs[1]], [_addr |-> input.addrs[2]]>>
    /\ ct_pc = "Ok"

(***************************************************************************)
(* C15: composition order.  Executing a chain runs its first stage, then   *)
(* applies the mapping function to that stage's output, then runs the      *)
(* stage the function built, and so on to the last stage, whose result is  *)
(* the chain's: the calls made are always an initial part of the sequence  *)
(* stage 1, mapping 2, stage 2, mapping 3, ... in construction order, each *)
(* once, and the whole sequence when the chain returns Ok.                 *)
(***************************************************************************)
ct_calls == [i \in 1..Len(ct_trace) |-> <<ct_trace[i].op, ct_trace[i].name>>]

ct_all_calls(last) ==
    << <<"execute", "DiscoverNodes">>, <<"map", "ConnectNodes::new">>,
       <<"execute", "ConnectNodes">>, <<"map", "Consensus::new">>,
       <<"execute", "Consensus">>, <<"map", "LeaderOrFollower::new">>,
       <<"execute", "LeaderOrFollower">>, <<"execute", last>> >>

\* the calls of a chain that starts at the input's stage and meets no failure
ct_expected_calls ==
    LET all == ct_all_calls(IF input.tag = "Follower" THEN "Follower" ELSE "Leader")
    IN  SubSeq(all, 2 * Rank(input.tag) - 1, Len(all))

C15_CompositionOrder ==
    (input.tag \in Phases /\ ct_pc # "built") =>
        /\ IsPrefix(ct_calls, ct_expected_calls)
        /\ ct_pc = "Ok" => ct_calls = ct_expected_calls
        /\ ct_pc = "Err" <=> (ct_trace # <<>> /\ Last(ct_trace).name = fault)
        \* the mapping function gets the output of the stage just run, and the
        \* stage it builds is the stage run next
        /\ \A i \in 2..Len(ct_trace) :
              ct_trace[i].op = "map" =>
                 /\ ct_trace[i - 1].op = "execute"
                 /\ ct_trace[i].state =
                       ct_map_fn(ct_trace[i].name, ct_stage_execute(ct_trace[i - 1].state).val)
                 /\ i < Len(ct_trace)
                 /\ ct_trace[i + 1].op = "execute" /\ ct_trace[i + 1].state = ct_trace[i].state

C15_Witness ==
    /\ input.tag = "DiscoverNodes" /\ fault = "none"
    /\ ct_pc = "Ok" /\ Len(ct_trace) = 8
    /\ ct_trace[2].op = "map" /\ ct_trace[3].name = "ConnectNodes"

(***************************************************************************)
(* C16: the enum executor always terminates with Ok.  With the machine's   *)
(* own phases (none fails), from every initial variant the executor        *)
(* eventually returns Ok in state Terminate, having made exactly 4 execute *)
(* calls from DiscoverNodes, 3 from ConnectNodes, 2 from Consensus, 1 from *)
(* Leader or Follower and none from Terminate; it never returns anything   *)
(* else and never makes more calls than that.                              *)
(***************************************************************************)
\* the execute calls left from a variant to Terminate
ie_calls_left(tag) == 5 - Rank(tag)

ie_done == ie_pc = "Ok" /\ ie_state = Terminate /\ Len(ie_log) = ie_calls_left(input.tag)

ie_on_course ==
    /\ ie_pc \in {"loop", "Ok"}
    /\ Len(ie_log) + ie_calls_left(ie_state.tag) = ie_calls_left(input.tag)
    /\ ie_pc = "Ok" => ie_done

\* the executor under its scheduling: a running loop takes its next step
SpecEnumFair == SpecEnum /\ WF_vars(NextEnum)

C16_TerminatesWithOk ==
    /\ [](fault = "none" => ie_on_course)
    /\ (fault = "none") ~> ie_done

C16_Witness ==
    /\ input.tag = "DiscoverNodes" /\ fault = "none"
    /\ ie_done /\ Len(ie_log) = 4

(***************************************************************************)
(* C17: once a transition has put the event-driven engine in Terminate,    *)
(* the executor returns Ok and receives and applies no further event, even *)
(* if events remain queued; an engine started from DiscoverNodes consumes  *)
(* exactly 4 events to finish and never more than 4 (3, 2, 1 from the      *)
(* later phases).                                                          *)
(***************************************************************************)
\* the events the executor has taken out of the channel
ee_consumed == tx_sent - Len(rx_queue)

\* the engine's state is Terminate and a transition put it there
ee_terminated == ee_state.tag = "Terminate" /\ Len(ee_hist) > 1

ee_events_needed == 5 - Rank(input.tag)

C17_NothingAfterTerminate ==
    /\ [](input.tag \in Phases =>
            /\ ee_consumed = Len(ee_log)
            /\ ee_consumed <= ee_events_needed
            /\ ee_terminated => (ee_pc = "Ok" /\ ee_consumed = ee_events_needed))
    /\ [][ee_terminated =>
            /\ UNCHANGED <<ee_state, ee_pc, ee_err, ee_log, ee_hist, ee_trans, ee_recv>>
            /\ IsPrefix(rx_queue, rx_queue')]_vars

C17_Witness ==
    /\ input.tag = "DiscoverNodes"
    /\ ee_terminated /\ ee_pc = "Ok"
    /\ ee_consumed = 4 /\ rx_queue # <<>>

(***************************************************************************)
(* C18: event-driven progress.  The executor waits nowhere but in the      *)
(* blocking receive: while it runs it can take a step unless the channel   *)
(* is open and empty, and then it stays in the same phase, without timeout *)
(* or transition, until the producer acts.  Once the producer has closed   *)
(* the channel, or has delivered the events the machine still waits for,   *)
(* the executor eventually returns.                                        *)
(***************************************************************************)
\* the executor sits in events.recv(): the channel is open and empty
ee_blocked == ee_pc = "loop" /\ rx_queue = <<>> /\ tx_alive

\* the events that take the initial state to the end of the loop (an engine
\* started on Terminate still waits for its first event)
ee_events_awaited == IF input.tag = "Terminate" THEN 1 ELSE 5 - Rank(input.tag)

\* the executor under its scheduling: a receive that can return does return;
\* nothing is assumed of the producer
SpecExtFair == SpecExt /\ WF_vars(ee_loop_body) /\ WF_vars(ee_loop_exit)

C18_EventDrivenProgress ==
    /\ []((ee_pc = "loop" /\ ~ee_blocked) => ENABLED (ee_loop_body \/ ee_loop_exit))
    /\ [](ee_blocked => ~ENABLED (ee_loop_body \/ ee_loop_exit))
    /\ [][ee_blocked =>
            UNCHANGED <<ee_state, ee_pc, ee_err, ee_log, ee_hist, ee_trans, ee_recv>>]_vars
    /\ (~tx_alive \/ tx_sent >= ee_events_awaited) ~> (ee_pc # "loop")

\* blocked in the middle of the workflow, two events in
C18_Witness ==
    /\ input.tag = "DiscoverNodes" /\ fault = "none"
    /\ ee_blocked /\ Len(ee_log) = 2 /\ ee_state.tag = "Consensus"

=============================================================================
